---- MODULE Spec2Model ----
(***************************************************************************)
(* Model of the classification and confidence-resolution scripts:          *)
(*   scripts/combine_results.py  (parse_result, combine, main)             *)
(*   scripts/text_classifier.py  (fingerprint_matches, classify)           *)
(*   scripts/llm_classifier.py   (validate_response, compute_confidence,   *)
(*                                classify)                                *)
(* Python dicts are records; a key that is missing from a dict holds       *)
(* ABSENT, a key holding None holds NULL.                                  *)
(***************************************************************************)
EXTENDS Integers, Sequences, FiniteSets, TLC

VARIABLES pc,
          \* combine_results.py
          text_result, llm_result, text_r, llm_r, combined, stdout, exit_code,
          \* text_classifier.py classify
          kb, text, iter, best, candidate,
          \* llm_classifier.py classify; calls and outcomes log what call_ollama was
          \* sent and what it returned or raised
          user_prompt, attempt, last_error, calls, outcomes,
          \* the dict a classify returns
          result

mainVars == <<text_result, llm_result, text_r, llm_r, combined, stdout, exit_code>>
textVars == <<kb, text, iter, best, candidate>>
llmVars == <<user_prompt, attempt, last_error, calls, outcomes>>
vars == <<pc, mainVars, textVars, llmVars, result>>

ABSENT == "<absent>"
NULL == "<null>"
\* a JSON value json.loads accepts that cannot be a dict key (a list or an object)
UNHASHABLE == "<list>"

(***************************************************************************)
(* JSON values handed to the combiner.  kind "object" is a dict; kind      *)
(* "other" is any other JSON value (list, number, string, null), which     *)
(* has no .get method.                                                     *)
(***************************************************************************)
Confidences == {"HIGH", "MEDIUM", "LOW", "high", UNHASHABLE, ABSENT}
Issuers == {"Acme Bank", "Zen Bank"}
AccountTypes == {"savings", NULL}
StatementTypes == {"monthly", "annual"}

Dict(s, c, i, a, st) ==
    [kind |-> "object", status |-> s, confidence |-> c, issuer |-> i,
     account_type |-> a, statement_type |-> st]

NonDict == [kind |-> "other", status |-> ABSENT, confidence |-> ABSENT,
            issuer |-> ABSENT, account_type |-> ABSENT, statement_type |-> ABSENT]

\* results that carry classification data (a success, or an unrecognized status)
DataResults ==
    {Dict(s, c, i, a, st) : s \in {"success", "partial"}, c \in Confidences,
                            i \in Issuers, a \in AccountTypes, st \in StatementTypes}

\* results without classification data: {"status": "error", ...}, {"status": "no_match"}, {}
BareResults == {Dict(s, ABSENT, ABSENT, ABSENT, ABSENT) : s \in {"error", "no_match", ABSENT}}

Results == DataResults \cup BareResults

\* dict.get(key, default); dict.get(key) is Get(d, key, NULL)
Get(d, key, default) == IF d[key] = ABSENT THEN default ELSE d[key]

\* CONF_RANK.get(conf, 0)
CONF_RANK(conf) ==
    CASE conf = "HIGH" -> 3
      [] conf = "MEDIUM" -> 2
      [] conf = "LOW" -> 1
      [] OTHER -> 0

\* the dict a raise leaves in place of a return value
Raised(exc) == [status |-> exc, confidence |-> NULL, issuer |-> NULL,
                account_type |-> NULL, statement_type |-> NULL]

IsRaised(r) == r.status \in {"<AttributeError>", "<TypeError>"}

\* no_fields reporting a LOW confidence instead of None
no_fields_low(status) == [status |-> status, confidence |-> "LOW", issuer |-> NULL,
                          account_type |-> NULL, statement_type |-> NULL]

no_fields(status) == [status |-> status, confidence |-> NULL, issuer |-> NULL,
                      account_type |-> NULL, statement_type |-> NULL]

\* only_success passing the successful side's own confidence through
only_success_keeps_confidence(r) ==
    [status |-> "success", confidence |-> Get(r, "confidence", "LOW"),
     issuer |-> Get(r, "issuer", NULL),
     account_type |-> Get(r, "account_type", NULL),
     statement_type |-> Get(r, "statement_type", NULL)]

\* the return of the one-success branches: LOW, fields of the successful side
only_success(r) ==
    [status |-> "success", confidence |-> "LOW",
     issuer |-> Get(r, "issuer", NULL),
     account_type |-> Get(r, "account_type", NULL),
     statement_type |-> Get(r, "statement_type", NULL)]

\* agree also comparing account_type
agree_with_account(text_r_, llm_r_) ==
    /\ Get(text_r_, "issuer", NULL) = Get(llm_r_, "issuer", NULL)
    /\ Get(text_r_, "account_type", NULL) = Get(llm_r_, "account_type", NULL)
    /\ Get(text_r_, "statement_type", NULL) = Get(llm_r_, "statement_type", NULL)

agree(text_r_, llm_r_) ==
    /\ Get(text_r_, "issuer", NULL) = Get(llm_r_, "issuer", NULL)
    /\ Get(text_r_, "statement_type", NULL) = Get(llm_r_, "statement_type", NULL)

\* the return of the two agreement branches: fields read from text_r
agreed(conf, text_r_) ==
    [status |-> "success", confidence |-> conf,
     issuer |-> Get(text_r_, "issuer", NULL),
     account_type |-> Get(text_r_, "account_type", NULL),
     statement_type |-> Get(text_r_, "statement_type", NULL)]

\* winner with > for >=: a tie goes to llm_r
winner_strict(text_r_, llm_r_, t_conf, l_conf) ==
    IF CONF_RANK(t_conf) > CONF_RANK(l_conf) THEN text_r_ ELSE llm_r_

winner(text_r_, llm_r_, t_conf, l_conf) ==
    IF CONF_RANK(t_conf) >= CONF_RANK(l_conf) THEN text_r_ ELSE llm_r_

both_success(text_r_, llm_r_) ==
    LET t_conf == Get(text_r_, "confidence", "LOW")
        l_conf == Get(llm_r_, "confidence", "LOW")
    IN  IF agree(text_r_, llm_r_) /\ t_conf = "HIGH" /\ l_conf = "HIGH"
        THEN agreed("HIGH", text_r_)
        ELSE IF agree(text_r_, llm_r_)
        THEN agreed("MEDIUM", text_r_)
        ELSE IF UNHASHABLE \in {t_conf, l_conf}
        THEN Raised("<TypeError>")
        ELSE LET w == winner(text_r_, llm_r_, t_conf, l_conf)
             IN  [status |-> "success", confidence |-> "LOW",
                  issuer |-> Get(w, "issuer", NULL),
                  account_type |-> Get(w, "account_type", NULL),
                  statement_type |-> Get(w, "statement_type", NULL)]

\* combine testing "the other side is not a success" where the code tests
\* "the other side is error or no_match"
combine_other_not_success(text_r_, llm_r_) ==
    IF text_r_.kind # "object" \/ llm_r_.kind # "object"
    THEN Raised("<AttributeError>")
    ELSE
    LET ts == Get(text_r_, "status", "error")
        ls == Get(llm_r_, "status", "error")
    IN  IF ts = "error" /\ ls = "error" THEN no_fields("error")
        ELSE IF (ts = "error" /\ ls = "no_match") \/ (ts = "no_match" /\ ls = "error")
        THEN no_fields("no_match")
        ELSE IF ts = "success" /\ ls # "success" THEN only_success(text_r_)
        ELSE IF ls = "success" /\ ts # "success" THEN only_success(llm_r_)
        ELSE IF ts = "no_match" /\ ls = "no_match" THEN no_fields("no_match")
        ELSE IF ts = "success" /\ ls = "success" THEN both_success(text_r_, llm_r_)
        ELSE no_fields("error")

combine(text_r_, llm_r_) ==
    IF text_r_.kind # "object" \/ llm_r_.kind # "object"
    THEN Raised("<AttributeError>")
    ELSE
    LET ts == Get(text_r_, "status", "error")
        ls == Get(llm_r_, "status", "error")
    IN  IF ts = "error" /\ ls = "error" THEN no_fields("error")
        ELSE IF (ts = "error" /\ ls = "no_match") \/ (ts = "no_match" /\ ls = "error")
        THEN no_fields("no_match")
        ELSE IF ts = "success" /\ ls \in {"error", "no_match"} THEN only_success(text_r_)
        ELSE IF ls = "success" /\ ts \in {"error", "no_match"} THEN only_success(llm_r_)
        ELSE IF ts = "no_match" /\ ls = "no_match" THEN no_fields("no_match")
        ELSE IF ts = "success" /\ ls = "success" THEN both_success(text_r_, llm_r_)
        ELSE no_fields("error")

(***************************************************************************)
(* Command-line strings of combine_results.py: the empty string, text      *)
(* json.loads rejects, or text that decodes to a JSON value.               *)
(***************************************************************************)
NoValue == "<none>"

ArgStrings ==
    {[form |-> "empty", value |-> NonDict], [form |-> "invalid", value |-> NonDict]}
    \cup {[form |-> "json", value |-> v] : v \in Results \cup {NonDict}}

parse_result(s) ==
    IF s.form = "empty" THEN Dict("error", ABSENT, ABSENT, ABSENT, ABSENT)
    ELSE IF s.form = "invalid" THEN Dict("error", ABSENT, ABSENT, ABSENT, ABSENT)
    ELSE s.value

\* --pages-meta: empty, undecodable, a JSON non-object, an object without or with pages_analyzed
PagesMeta == {"", "not json", "[1]", "{}", "{pages_analyzed: 2}"}

pages_analyzed_of(pages_meta) == IF pages_meta = "{pages_analyzed: 2}" THEN 2 ELSE NULL

exit_status(status) ==
    IF status = "success" THEN 0 ELSE IF status = "no_match" THEN 1 ELSE 2

NoDict == Dict(ABSENT, ABSENT, ABSENT, ABSENT, ABSENT)
NoArg == [form |-> "none", value |-> NonDict]
NoCombined == no_fields(NoValue)
NoOutput == [printed |-> FALSE, result |-> NoCombined, pages_analyzed |-> NULL]

\* the variables of combine_results.py while another script runs
IdleMain ==
    /\ text_result = NoArg /\ llm_result = NoArg
    /\ text_r = NoDict /\ llm_r = NoDict
    /\ combined = NoCombined
    /\ stdout = NoOutput
    /\ exit_code = -1


(***************************************************************************)
(* text_classifier.py.  The normalized document text is the set of         *)
(* lower-case, single-spaced phrases it contains and of lower-cased        *)
(* patterns re.search finds in it.  A fingerprint is its string, whether   *)
(* it contains a character of REGEX_META, and whether re compiles it.      *)
(***************************************************************************)
Phrases == {"acme bank"}

Literal == [pattern |-> "Acme  Bank", meta |-> FALSE, compiles |-> TRUE]
BadPattern == [pattern |-> "Stmt(", meta |-> TRUE, compiles |-> FALSE]

\* the fingerprints a knowledge base of the model draws from: one that matches
\* when the text holds its phrase, one that never matches
Fingerprints == {Literal, BadPattern}

\* str.lower()
lower(str) ==
    CASE str = "Acme  Bank" -> "acme  bank"
      [] str = "Stmt(" -> "stmt("
      [] OTHER -> str

\* re.sub(r"\s+", " ", s).strip()
collapse(str) == IF str = "acme  bank" THEN "acme bank" ELSE str

is_regex(fp) == fp.meta

fingerprint_matches(fp, text_) ==
    LET fp_lower == lower(fp.pattern)
    IN  IF is_regex(fp)
        THEN IF fp.compiles THEN fp_lower \in text_ ELSE FALSE
        ELSE collapse(fp_lower) \in text_

\* bounds of the knowledge bases explored
MaxStmts == 2
MaxFp == 3

SeqsUpTo(S, n) == UNION {[1..m -> S] : m \in 0..n}

\* every way to cut a sequence into consecutive non-empty groups
RECURSIVE Groupings(_)
Groupings(s) ==
    IF s = <<>> THEN {<<>>}
    ELSE UNION {{<<SubSeq(s, 1, k)>> \o g : g \in Groupings(SubSeq(s, k + 1, Len(s)))}
                : k \in 1..Len(s)}

\* kb.yaml as loaded: sources[].accounts[].statements[].fingerprints[]; the
\* names are the positions, so that a candidate names the statement it came from
Labelled(g) ==
    [i \in 1..Len(g) |->
        [name |-> <<i>>,
         accounts |-> [j \in 1..Len(g[i]) |->
            [type |-> <<i, j>>,
             statements |-> [k \in 1..Len(g[i][j]) |->
                [name |-> <<i, j, k>>, fingerprints |-> g[i][j][k]]]]]]]

\* kb is a knowledge base of at most MaxStmts statements, each with at most MaxFp
\* fingerprints, grouped into accounts and the accounts into sources
IsKnowledgeBase(kb_) ==
    \E flat \in SeqsUpTo(SeqsUpTo(Fingerprints, MaxFp), MaxStmts) :
        \E a \in Groupings(flat) :
            \E g \in Groupings(a) : kb_ = Labelled(g)

\* the (source, account, statement) positions in the order the three nested
\* for loops reach them
RECURSIVE StatementPaths(_, _, _)
StatementPaths(kb_, i, j) ==
    IF i > Len(kb_) THEN <<>>
    ELSE IF j > Len(kb_[i].accounts) THEN StatementPaths(kb_, i + 1, 1)
    ELSE [k \in 1..Len(kb_[i].accounts[j].statements) |-> <<i, j, k>>]
         \o StatementPaths(kb_, i, j + 1)

Paths(kb_) == StatementPaths(kb_, 1, 1)

\* lines 69-72
matched_of(fingerprints, text_) ==
    SelectSeq(fingerprints, LAMBDA fp : fingerprint_matches(fp, text_))

\* confidence_rule testing "more than one" before "all"
confidence_rule_medium_first(match_count, total) ==
    IF match_count > 1 THEN "MEDIUM"
    ELSE IF match_count = total THEN "HIGH"
    ELSE "LOW"

\* lines 81-86, for match_count > 0
confidence_rule(match_count, total) ==
    IF match_count = total THEN "HIGH"
    ELSE IF match_count > 1 THEN "MEDIUM"
    ELSE "LOW"

NoCandidate == [status |-> "none", confidence |-> NULL, issuer |-> <<>>,
                account_type |-> <<>>, statement_type |-> <<>>, evidence |-> <<>>]

\* lines 59-95: the candidate of one statement, NoCandidate when the loop continues
candidate_of(kb_, path, text_) ==
    LET source == kb_[path[1]]
        account == source.accounts[path[2]]
        statement == account.statements[path[3]]
        fingerprints == statement.fingerprints
        matched == matched_of(fingerprints, text_)
    IN  IF fingerprints = <<>> THEN NoCandidate
        ELSE IF Len(matched) = 0 THEN NoCandidate
        ELSE [status |-> "success",
              confidence |-> confidence_rule(Len(matched), Len(fingerprints)),
              issuer |-> source.name,
              account_type |-> account.type,
              statement_type |-> statement.name,
              evidence |-> matched]

\* replaces_best with >= for > on the evidence count: a later equal candidate wins
replaces_best_on_tie(cand, best_) ==
    LET best_rank == CONF_RANK(best_.confidence)
        cand_rank == CONF_RANK(cand.confidence)
    IN  \/ cand_rank > best_rank
        \/ cand_rank = best_rank /\ Len(cand.evidence) >= Len(best_.evidence)

\* lines 102-107
replaces_best(cand, best_) ==
    LET best_rank == CONF_RANK(best_.confidence)
        cand_rank == CONF_RANK(cand.confidence)
    IN  \/ cand_rank > best_rank
        \/ cand_rank = best_rank /\ Len(cand.evidence) > Len(best_.evidence)

NoMatchResult == [status |-> "no_match", confidence |-> NULL, issuer |-> <<>>,
                  account_type |-> <<>>, statement_type |-> <<>>, evidence |-> <<>>]

IdleText ==
    /\ kb = <<>> /\ text = {} /\ iter = 0
    /\ best = NoCandidate /\ candidate = NoCandidate


(***************************************************************************)
(* llm_classifier.py.  A response is the value call_ollama decodes from    *)
(* the model's reply: a dict (kind "object") or another JSON value.        *)
(* evidence_type tells whether the "evidence" key is missing, holds a      *)
(* list, or holds something else.                                          *)
(***************************************************************************)
MaxEvidence == 3

Response(s, i, a, st, et, ev, c) ==
    [kind |-> "object", status |-> s, issuer |-> i, account_type |-> a,
     statement_type |-> st, evidence_type |-> et, evidence |-> ev,
     confidence |-> c, error |-> <<>>]

EvidenceLists == {[n \in 1..m |-> n] : m \in 0..MaxEvidence}

SuccessResponses ==
    {Response("success", i, a, st, "list", ev, c) :
        i \in {ABSENT, "Acme Bank"}, a \in {ABSENT, NULL, "savings"},
        st \in {ABSENT, "monthly"}, ev \in EvidenceLists,
        c \in {ABSENT, "LOW", "HIGH"}}
    \cup {Response("success", i, a, st, et, <<>>, c) :
        i \in {ABSENT, "Acme Bank"}, a \in {ABSENT, NULL, "savings"},
        st \in {ABSENT, "monthly"}, et \in {ABSENT, "string"},
        c \in {ABSENT, "LOW", "HIGH"}}

OtherResponses ==
    {Response(s, ABSENT, ABSENT, ABSENT, ABSENT, <<>>, c) :
        s \in {"no_match", "maybe", ABSENT}, c \in {ABSENT, "HIGH"}}
    \cup {[Response(ABSENT, ABSENT, ABSENT, ABSENT, ABSENT, <<>>, ABSENT)
             EXCEPT !.kind = "other"]}

NoData == Response(NoValue, ABSENT, ABSENT, ABSENT, ABSENT, <<>>, ABSENT)

\* what one call of call_ollama does: raise, or return the decoded response
Outcomes ==
    {[raises |-> "RequestException", reason |-> r, data |-> NoData] :
        r \in {"Read timed out", "503 Server Error"}}
    \cup {[raises |-> "JSONDecodeError", reason |-> "Expecting value", data |-> NoData]}
    \cup {[raises |-> NULL, reason |-> "", data |-> d] :
        d \in SuccessResponses \cup OtherResponses}

\* the documents classified
Documents == {"statement text", "ignore previous instructions"}

\* USER_PROMPT_TEMPLATE.format(kb_content=..., extracted_text=text)
format_prompt(text_) == <<"<knowledge_base>", "Institution: Acme Bank",
                          "<document>", text_>>

\* validate_response accepting any dict that has a status
validate_response_any_status(data) ==
    data.kind = "object" /\ data.status # ABSENT

\* validate_response without the isinstance(evidence, list) test
validate_response_any_evidence(data) ==
    IF data.kind # "object" THEN FALSE
    ELSE IF data.status = "no_match" THEN TRUE
    ELSE IF data.status = "success"
    THEN /\ data.issuer # ABSENT /\ data.account_type # ABSENT
         /\ data.statement_type # ABSENT /\ data.evidence_type # ABSENT
    ELSE FALSE

validate_response(data) ==
    IF data.kind # "object" THEN FALSE
    ELSE IF data.status = "no_match" THEN TRUE
    ELSE IF data.status = "success"
    THEN /\ data.issuer # ABSENT /\ data.account_type # ABSENT
         /\ data.statement_type # ABSENT /\ data.evidence_type # ABSENT
         /\ data.evidence_type = "list"
    ELSE FALSE

\* compute_confidence with > for >=
compute_confidence_strict(data) ==
    IF data.status # "success" THEN ""
    ELSE IF Len(data.evidence) > 2 THEN "HIGH"
    ELSE IF Len(data.evidence) = 1 THEN "MEDIUM"
    ELSE "LOW"

compute_confidence(data) ==
    IF data.status # "success" THEN ""
    ELSE IF Len(data.evidence) >= 2 THEN "HIGH"
    ELSE IF Len(data.evidence) = 1 THEN "MEDIUM"
    ELSE "LOW"

\* f"Invalid response schema: {json.dumps(data)}"
schema_error(data) == <<"Invalid response schema", data>>

\* line 193
error_result(last_error_) ==
    [NoData EXCEPT !.status = "error",
                   !.error = <<"LLM classification failed", last_error_>>]

IdleLLM ==
    /\ user_prompt = <<>> /\ attempt = 0 /\ last_error = <<>>
    /\ calls = <<>> /\ outcomes = <<>>

----------------------------------------------------------------------------
(* classify of text_classifier.py *)

InitText ==
    /\ pc = "loop"
    /\ IsKnowledgeBase(kb)
    /\ text \in SUBSET Phrases
    /\ iter = 1
    /\ best = NoCandidate
    /\ candidate = NoCandidate
    /\ result = NoValue
    /\ IdleMain /\ IdleLLM

\* one pass of the innermost loop body, lines 63-108
VisitStatement ==
    /\ pc = "loop"
    /\ iter <= Len(Paths(kb))
    /\ candidate' = candidate_of(kb, Paths(kb)[iter], text)
    /\ best' = IF candidate'.status = "none" THEN best
               ELSE IF best.status = "none" THEN candidate'
               ELSE IF replaces_best(candidate', best) THEN candidate'
               ELSE best
    /\ iter' = iter + 1
    /\ UNCHANGED <<pc, kb, text, result, mainVars, llmVars>>

\* line 110
ReturnBest ==
    /\ pc = "loop"
    /\ iter > Len(Paths(kb))
    /\ result' = IF best.status # "none" THEN best ELSE NoMatchResult
    /\ pc' = "returned"
    /\ UNCHANGED <<textVars, mainVars, llmVars>>

NextText == VisitStatement \/ ReturnBest

SpecText == InitText /\ [][NextText]_vars

----------------------------------------------------------------------------
(* classify of llm_classifier.py *)

InitLLM ==
    /\ pc = "attempt"
    /\ \E text_ \in Documents : user_prompt = format_prompt(text_)
    /\ attempt = 0
    /\ last_error = <<>>
    /\ calls = <<>>
    /\ outcomes = <<>>
    /\ result = NoValue
    /\ IdleMain /\ IdleText

\* one pass of the for loop, lines 170-191
Attempt ==
    /\ pc = "attempt"
    /\ attempt \in {0, 1}
    /\ \E o \in Outcomes :
        /\ calls' = Append(calls, user_prompt)
        /\ outcomes' = Append(outcomes, o)
        /\ IF o.raises # NULL
           THEN /\ last_error' = <<o.reason>>
                /\ attempt' = attempt + 1
                /\ UNCHANGED <<pc, result>>
           ELSE IF validate_response(o.data)
           THEN /\ result' = IF o.data.status = "success"
                             THEN [o.data EXCEPT !.confidence = compute_confidence(o.data)]
                             ELSE o.data
                /\ pc' = "returned"
                /\ UNCHANGED <<attempt, last_error>>
           ELSE /\ last_error' = schema_error(o.data)
                /\ attempt' = attempt + 1
                /\ UNCHANGED <<pc, result>>
    /\ UNCHANGED <<user_prompt, mainVars, textVars>>

\* line 193, after the loop ran out
ReturnError ==
    /\ pc = "attempt"
    /\ attempt \notin {0, 1}
    /\ result' = error_result(last_error)
    /\ pc' = "returned"
    /\ UNCHANGED <<llmVars, mainVars, textVars>>

NextLLM == Attempt \/ ReturnError

SpecLLM == InitLLM /\ [][NextLLM]_vars

----------------------------------------------------------------------------
(* combine applied to a pair of classifier results *)

InitCombine ==
    /\ pc = "combine"
    /\ text_r \in Results
    /\ llm_r \in Results
    /\ text_result = NoArg /\ llm_result = NoArg
    /\ combined = NoCombined
    /\ stdout = NoOutput
    /\ exit_code = -1
    /\ IdleText /\ IdleLLM /\ result = NoValue

Combine ==
    /\ pc = "combine"
    /\ combined' = combine(text_r, llm_r)
    /\ pc' = "combined"
    /\ UNCHANGED <<text_result, llm_result, text_r, llm_r, stdout, exit_code>>
    /\ UNCHANGED <<textVars, llmVars, result>>

NextCombine == Combine

SpecCombine == InitCombine /\ [][NextCombine]_vars

----------------------------------------------------------------------------
(* main of combine_results.py *)

InitMain ==
    /\ pc = "main"
    /\ text_result \in ArgStrings
    /\ llm_result \in ArgStrings
    /\ text_r = NoDict /\ llm_r = NoDict
    /\ combined = NoCombined
    /\ stdout = NoOutput
    /\ exit_code = -1
    /\ IdleText /\ IdleLLM /\ result = NoValue

\* lines 106-108; an exception raised by combine ends the process with a traceback
\* on stderr, nothing on stdout and the interpreter's exit code 1
MainCombine ==
    /\ pc = "main"
    /\ text_r' = parse_result(text_result)
    /\ llm_r' = parse_result(llm_result)
    /\ combined' = combine(text_r', llm_r')
    /\ IF IsRaised(combined')
       THEN pc' = "exited" /\ exit_code' = 1
       ELSE pc' = "emit" /\ exit_code' = exit_code
    /\ UNCHANGED <<text_result, llm_result, stdout>>
    /\ UNCHANGED <<textVars, llmVars, result>>

\* lines 110-147
MainEmit ==
    /\ pc = "emit"
    /\ \E pages_meta \in PagesMeta :
         stdout' = [printed |-> TRUE, result |-> combined,
                    pages_analyzed |-> pages_analyzed_of(pages_meta)]
    /\ exit_code' = exit_status(combined.status)
    /\ pc' = "exited"
    /\ UNCHANGED <<text_result, llm_result, text_r, llm_r, combined>>
    /\ UNCHANGED <<textVars, llmVars, result>>

NextMain == MainCombine \/ MainEmit

SpecMain == InitMain /\ [][NextMain]_vars

----------------------------------------------------------------------------
(* Properties of combine *)

\* a result as the classifiers' contract describes it: error, no_match, or a
\* success with a confidence of HIGH, MEDIUM or LOW
Contractual(r) ==
    /\ r.kind = "object"
    /\ r.status \in {"error", "no_match", "success"}
    /\ r.status = "success" => r.confidence \in {"HIGH", "MEDIUM", "LOW"}

FieldsOf(r) == <<Get(r, "issuer", NULL), Get(r, "account_type", NULL),
                 Get(r, "statement_type", NULL)>>

OutFields(c) == <<c.issuer, c.account_type, c.statement_type>>

\* C1: combine is symmetric: for every pair of contractual results, combine(a, b)
\* and combine(b, a) have the same status, confidence, issuer, account_type and
\* statement_type.
C1_Symmetric ==
    (pc = "combined" /\ Contractual(text_r) /\ Contractual(llm_r))
        => combined = combine(llm_r, text_r)

\* C2: exactly one side is a success and the other an error or no_match: the
\* combined result is success with confidence LOW, whatever the successful side
\* reported, and carries exactly the successful side's three fields, in either
\* argument position.
C2_OneSuccessIsLow ==
    pc = "combined" =>
        /\ (text_r.status = "success" /\ llm_r.status \in {"error", "no_match"})
              => /\ combined.status = "success" /\ combined.confidence = "LOW"
                 /\ OutFields(combined) = FieldsOf(text_r)
        /\ (llm_r.status = "success" /\ text_r.status \in {"error", "no_match"})
              => /\ combined.status = "success" /\ combined.confidence = "LOW"
                 /\ OutFields(combined) = FieldsOf(llm_r)

\* the spec's end-to-end scenario: no_match with a MEDIUM success for Acme Bank
C2_Witness ==
    /\ pc = "combined"
    /\ text_r.status = "no_match"
    /\ llm_r.status = "success" /\ llm_r.confidence = "MEDIUM"
    /\ llm_r.issuer = "Acme Bank" /\ llm_r.account_type = "savings"
    /\ llm_r.statement_type = "monthly"
    /\ combined.confidence = "LOW" /\ combined.issuer = "Acme Bank"

Agreeing(a, b) == a.issuer = b.issuer /\ a.statement_type = b.statement_type

\* C3: both sides succeed: agreement is issuer and statement_type only; the
\* combined confidence is HIGH iff they agree and both report HIGH, MEDIUM iff
\* they agree and not both report HIGH; on agreement the status is success, issuer
\* and statement_type are the agreed values and account_type is the first
\* argument's.
C3_AgreementGrades ==
    (pc = "combined" /\ text_r.status = "success" /\ llm_r.status = "success") =>
        LET bothHigh == text_r.confidence = "HIGH" /\ llm_r.confidence = "HIGH"
        IN  /\ combined.confidence = "HIGH" <=> (Agreeing(text_r, llm_r) /\ bothHigh)
            /\ combined.confidence = "MEDIUM" <=> (Agreeing(text_r, llm_r) /\ ~bothHigh)
            /\ Agreeing(text_r, llm_r) =>
                  /\ combined.status = "success"
                  /\ combined.issuer = text_r.issuer /\ combined.issuer = llm_r.issuer
                  /\ combined.statement_type = text_r.statement_type
                  /\ combined.statement_type = llm_r.statement_type
                  /\ combined.account_type = text_r.account_type

\* agreement on issuer and statement with different account types, one side not HIGH
C3_Witness ==
    /\ pc = "combined"
    /\ text_r.status = "success" /\ llm_r.status = "success"
    /\ Agreeing(text_r, llm_r)
    /\ text_r.account_type # llm_r.account_type
    /\ text_r.confidence = "HIGH" /\ llm_r.confidence = "LOW"
    /\ combined.confidence = "MEDIUM"
    /\ combined.account_type = text_r.account_type

Rank(conf) == IF conf = "HIGH" THEN 3 ELSE IF conf = "MEDIUM" THEN 2 ELSE 1

\* C4: both sides succeed and disagree (issuer or statement_type differs): the
\* result is success with confidence LOW and all three fields come from one side,
\* the one with the strictly higher confidence under HIGH > MEDIUM > LOW, or the
\* first argument when the confidences are equal.
C4_DisagreementPicksOneSide ==
    (/\ pc = "combined"
     /\ text_r.status = "success" /\ llm_r.status = "success"
     /\ text_r.confidence \in {"HIGH", "MEDIUM", "LOW"}
     /\ llm_r.confidence \in {"HIGH", "MEDIUM", "LOW"}
     /\ ~Agreeing(text_r, llm_r)) =>
        /\ combined.status = "success" /\ combined.confidence = "LOW"
        /\ Rank(llm_r.confidence) > Rank(text_r.confidence)
              => OutFields(combined) = FieldsOf(llm_r)
        /\ Rank(llm_r.confidence) <= Rank(text_r.confidence)
              => OutFields(combined) = FieldsOf(text_r)

\* a disagreement at equal confidence, resolved for the first argument
C4_Witness ==
    /\ pc = "combined"
    /\ text_r.status = "success" /\ llm_r.status = "success"
    /\ text_r.confidence = "MEDIUM" /\ llm_r.confidence = "MEDIUM"
    /\ text_r.issuer # llm_r.issuer
    /\ combined.confidence = "LOW"
    /\ combined.issuer = text_r.issuer

\* C5: neither side succeeds: the status is error if both are error and no_match
\* otherwise (error with no_match in either order, no_match twice), and
\* confidence, issuer, account_type and statement_type are all null.
C5_NoSuccess ==
    (/\ pc = "combined"
     /\ text_r.status \in {"error", "no_match"}
     /\ llm_r.status \in {"error", "no_match"}) =>
        /\ combined.status =
              (IF text_r.status = "error" /\ llm_r.status = "error"
               THEN "error" ELSE "no_match")
        /\ combined.confidence = NULL
        /\ OutFields(combined) = <<NULL, NULL, NULL>>

\* an error on the first side absorbed by a no_match on the second
C5_Witness ==
    /\ pc = "combined"
    /\ text_r.status = "error" /\ llm_r.status = "no_match"
    /\ combined.status = "no_match" /\ combined.confidence = NULL

----------------------------------------------------------------------------
(* Properties of main of combine_results.py *)

\* C8: every run of the combiner step, whatever the two result strings (empty,
\* not valid JSON, valid JSON), emits the final envelope and exits with 0 if the
\* combined status is success, 1 if it is no_match and 2 otherwise.
C8_EnvelopeAndExitCode ==
    pc = "exited" =>
        /\ stdout.printed
        /\ exit_code = (IF combined.status = "success" THEN 0
                        ELSE IF combined.status = "no_match" THEN 1 ELSE 2)

----------------------------------------------------------------------------
(* Properties of classify of text_classifier.py *)

StatementAt(path) == kb[path[1]].accounts[path[2]].statements[path[3]]

\* the indices of the fingerprints of a statement that match the text
HitsAt(path) ==
    {n \in 1..Len(StatementAt(path).fingerprints) :
        fingerprint_matches(StatementAt(path).fingerprints[n], text)}

\* the fingerprints at the indices of a set, in list order
RECURSIVE Picked(_, _, _)
Picked(fps, idx, n) ==
    IF n > Len(fps) THEN <<>>
    ELSE (IF n \in idx THEN <<fps[n]>> ELSE <<>>) \o Picked(fps, idx, n + 1)

\* the statement the loop body ran on last
Visited == Paths(kb)[iter - 1]

\* C6 as stated: for a statement with n > 0 fingerprints of which k match,
\* confidence is HIGH iff k = n, MEDIUM iff 1 < k < n, LOW iff k = 1, there is no
\* candidate iff k = 0, and a candidate's evidence is the list of matched
\* fingerprints, never empty.
C6_AsStated ==
    (iter > 1 /\ StatementAt(Visited).fingerprints # <<>>) =>
        LET n == Len(StatementAt(Visited).fingerprints)
            k == Cardinality(HitsAt(Visited))
        IN  /\ candidate.confidence = "HIGH" <=> k = n
            /\ candidate.confidence = "MEDIUM" <=> (1 < k /\ k < n)
            /\ candidate.confidence = "LOW" <=> k = 1
            /\ candidate.status = "none" <=> k = 0
            /\ candidate.status # "none" =>
                  /\ candidate.evidence =
                        Picked(StatementAt(Visited).fingerprints, HitsAt(Visited), 1)
                  /\ candidate.evidence # <<>>

\* C6 amended: as above, with LOW iff k = 1 and n > 1 (a statement whose only
\* fingerprint matches is HIGH, the first rule that holds).
C6_ConfidenceByCount ==
    (iter > 1 /\ StatementAt(Visited).fingerprints # <<>>) =>
        LET n == Len(StatementAt(Visited).fingerprints)
            k == Cardinality(HitsAt(Visited))
        IN  /\ candidate.confidence = "HIGH" <=> k = n
            /\ candidate.confidence = "MEDIUM" <=> (1 < k /\ k < n)
            /\ candidate.confidence = "LOW" <=> (k = 1 /\ n > 1)
            /\ candidate.status = "none" <=> k = 0
            /\ candidate.status # "none" =>
                  /\ candidate.status = "success"
                  /\ candidate.evidence =
                        Picked(StatementAt(Visited).fingerprints, HitsAt(Visited), 1)
                  /\ candidate.evidence # <<>>

\* a statement whose single fingerprint matched
C6_Witness ==
    /\ iter > 1
    /\ Len(StatementAt(Visited).fingerprints) = 1
    /\ Cardinality(HitsAt(Visited)) = 1
    /\ candidate.confidence = "HIGH"

\* every statement position of the knowledge base
AllPaths ==
    {path \in (1..MaxStmts) \X (1..MaxStmts) \X (1..MaxStmts) :
        /\ path[1] \in DOMAIN kb
        /\ path[2] \in DOMAIN kb[path[1]].accounts
        /\ path[3] \in DOMAIN kb[path[1]].accounts[path[2]].statements}

\* the statements that have a matched fingerprint
Matching == {path \in AllPaths : HitsAt(path) # {}}

\* HIGH = 3 when every fingerprint matched, MEDIUM = 2 when several did, LOW = 1
Grade(path) ==
    IF Cardinality(HitsAt(path)) = Len(StatementAt(path).fingerprints) THEN 3
    ELSE IF Cardinality(HitsAt(path)) > 1 THEN 2 ELSE 1

\* knowledge-base order: source, then account, then statement
Before(p, q) ==
    \/ p[1] < q[1]
    \/ p[1] = q[1] /\ p[2] < q[2]
    \/ p[1] = q[1] /\ p[2] = q[2] /\ p[3] < q[3]

\* p is the best candidate: highest confidence, then most matched fingerprints,
\* then first in knowledge-base order
Best(p) ==
    \A q \in Matching \ {p} :
        \/ Grade(q) < Grade(p)
        \/ Grade(q) = Grade(p) /\ Cardinality(HitsAt(q)) < Cardinality(HitsAt(p))
        \/ /\ Grade(q) = Grade(p)
           /\ Cardinality(HitsAt(q)) = Cardinality(HitsAt(p))
           /\ Before(p, q)

\* C10: classify returns no_match iff no statement has a matched fingerprint;
\* otherwise it returns the one candidate with the highest confidence, the most
\* matched fingerprints among those, and the first place in knowledge-base order
\* among those still tied.
C10_BestCandidate ==
    pc = "returned" =>
        /\ result.status = "no_match" <=> Matching = {}
        /\ Matching # {} =>
              \E p \in Matching :
                  /\ Best(p)
                  /\ result.status = "success"
                  /\ result.issuer = kb[p[1]].name
                  /\ result.account_type = kb[p[1]].accounts[p[2]].type
                  /\ result.statement_type = StatementAt(p).name
                  /\ CONF_RANK(result.confidence) = Grade(p)
                  /\ result.evidence = Picked(StatementAt(p).fingerprints, HitsAt(p), 1)

\* two statements tie on confidence and on matched count; the earlier one is returned
C10_Witness ==
    /\ pc = "returned"
    /\ \E p \in Matching : \E q \in Matching :
          /\ Before(p, q)
          /\ Grade(p) = Grade(q)
          /\ Cardinality(HitsAt(p)) = Cardinality(HitsAt(q))
          /\ Best(p)
          /\ result.statement_type = StatementAt(p).name

----------------------------------------------------------------------------
(* Properties of classify of llm_classifier.py *)

\* the schema of section 4.2: no_match, or success with issuer, account_type,
\* statement_type and evidence present and evidence a sequence
PassesSchema(d) ==
    /\ d.kind = "object"
    /\ \/ d.status = "no_match"
       \/ /\ d.status = "success"
          /\ ABSENT \notin {d.issuer, d.account_type, d.statement_type}
          /\ d.evidence_type = "list"

\* an attempt fails on a transport failure, an unparseable body or a rejected response
Failed(o) == o.raises # NULL \/ ~PassesSchema(o.data)

FailureReason(o) ==
    IF o.raises # NULL THEN <<o.reason>> ELSE <<"Invalid response schema", o.data>>

LastOutcome == outcomes[Len(outcomes)]

\* C7: classify calls the model at most twice, each time with the same prompt; it
\* calls a second time iff the first attempt failed; it returns the first
\* response that passes schema validation; when both attempts fail it returns
\* status error with the failure reason of the second attempt.
C7_RetryOnce ==
    /\ Len(calls) <= 2 /\ Len(calls) = Len(outcomes)
    /\ \A n \in DOMAIN calls : calls[n] = user_prompt
    /\ Len(outcomes) = 2 => Failed(outcomes[1])
    /\ pc = "returned" =>
          /\ Len(outcomes) >= 1
          /\ Failed(outcomes[1]) => Len(outcomes) = 2
          /\ IF Failed(LastOutcome)
             THEN /\ result.status = "error"
                  /\ result.error = <<"LLM classification failed", FailureReason(LastOutcome)>>
             ELSE /\ result.status = LastOutcome.data.status
                  /\ result.issuer = LastOutcome.data.issuer
                  /\ result.account_type = LastOutcome.data.account_type
                  /\ result.statement_type = LastOutcome.data.statement_type
                  /\ result.evidence = LastOutcome.data.evidence

\* a transport failure, then a response the schema rejects: the error names the second
C7_Witness ==
    /\ pc = "returned"
    /\ Len(outcomes) = 2
    /\ outcomes[1].raises = "RequestException"
    /\ outcomes[2].raises = NULL /\ outcomes[2].data.status = "maybe"
    /\ result.status = "error"
    /\ result.error = <<"LLM classification failed",
                        <<"Invalid response schema", outcomes[2].data>>>>

\* C9: a success returned by classify carries the confidence of its evidence
\* count (2 or more HIGH, exactly 1 MEDIUM, 0 LOW), whatever confidence the model
\* supplied; a no_match is returned as the model gave it, with no confidence
\* computed for it.
C9_ConfidenceFromEvidence ==
    pc = "returned" =>
        /\ result.status = "success" =>
              result.confidence =
                 (IF Len(LastOutcome.data.evidence) >= 2 THEN "HIGH"
                  ELSE IF Len(LastOutcome.data.evidence) = 1 THEN "MEDIUM"
                  ELSE "LOW")
        /\ result.status = "no_match" => result = LastOutcome.data

\* the model says LOW but gives three evidence items: the result is HIGH
C9_Witness ==
    /\ pc = "returned"
    /\ result.status = "success"
    /\ LastOutcome.data.confidence = "LOW"
    /\ Len(LastOutcome.data.evidence) = 3
    /\ result.confidence = "HIGH"

\* C11 as stated: classify never returns status success with an empty evidence
\* list; a success response with empty evidence is rejected before it is returned.
C11_AsStated ==
    (pc = "returned" /\ result.status = "success") => result.evidence # <<>>

\* C11 amended: classify never returns status success whose evidence is missing
\* or is not a list; a success response with an empty evidence list passes
\* validation and is returned, with confidence LOW.
C11_EvidenceIsAList ==
    (pc = "returned" /\ result.status = "success") =>
        /\ result.evidence_type = "list"
        /\ LastOutcome.data.evidence_type = "list"
        /\ result.evidence = <<>> => result.confidence = "LOW"

\* the model answers success with an empty evidence list and classify returns it
C11_Witness ==
    /\ pc = "returned"
    /\ LastOutcome.raises = NULL
    /\ LastOutcome.data.status = "success"
    /\ LastOutcome.data.evidence_type = "list"
    /\ LastOutcome.data.evidence = <<>>
    /\ result.status = "success"
    /\ result.evidence = <<>>
    /\ result.confidence = "LOW"

\* a status that is a value, and none of error, no_match, success
Unrecognized(r) == r.status \notin {"error", "no_match", "success", ABSENT}

\* C12: when at least one of the two results has a status other than error,
\* no_match and success, combine does not raise and returns status error with
\* confidence, issuer, account_type and statement_type all null, also when the
\* other side is a success carrying data.
C12_FallbackIsError ==
    (pc = "combined" /\ (Unrecognized(text_r) \/ Unrecognized(llm_r))) =>
        /\ ~IsRaised(combined)
        /\ combined.status = "error"
        /\ combined.confidence = NULL
        /\ combined.issuer = NULL
        /\ combined.account_type = NULL
        /\ combined.statement_type = NULL

\* an unrecognized status on the first side, a HIGH success with data on the second
C12_Witness ==
    /\ pc = "combined"
    /\ text_r.status = "partial" /\ text_r.issuer = "Zen Bank"
    /\ llm_r.status = "success" /\ llm_r.confidence = "HIGH"
    /\ llm_r.issuer = "Acme Bank"
    /\ combined.status = "error" /\ combined.issuer = NULL

====
